---- MODULE Spec2Model ----
(***************************************************************************)
(* OrderSheet-Scanner: the extraction gateway's row normalization          *)
(* (services/geminiService, extractInvoiceData) and the App component's     *)
(* review / scan / export state machine (App.tsx, first App component).     *)
(***************************************************************************)
EXTENDS Integers, Sequences, FiniteSets, TLC

(***************************************************************************)
(* Bounds of the model                                                      *)
(***************************************************************************)
\* raw numbers returned by the model range over -MaxRaw..MaxRaw
MaxRaw == 3
\* number of operations of the user in one run: files handed to a scan, row
\* edits, deletes, adds, sorts, exports, copies, connection tests, settings
\* changes
MaxOps == 3

(***************************************************************************)
(* Program constants                                                        *)
(***************************************************************************)
\* par = inStock + 5 when neither par nor order is written
DefaultBuffer == 5
\* par = 10 when nothing at all is written
DefaultPar == 10
\* addItem: par of a blank row
ManualPar == 10
\* addItem: order of a blank row
ManualOrder == 10

(***************************************************************************)
(* JavaScript values.  A field of an item holds either a number or the     *)
(* text of an <input>; the text of a number input is the empty string or    *)
(* the decimal text of a number.  Raw JSON fields may also be absent or     *)
(* hold text that is no number.                                             *)
(***************************************************************************)
Num(n) == [t |-> "number", v |-> n]
Str(n) == [t |-> "string", v |-> n]
EmptyStr == [t |-> "empty", v |-> 0]
Absent == [t |-> "undefined", v |-> 0]
NotANumberText == [t |-> "text", v |-> 0]

\* Number(x): NaN is modelled by the pair <<FALSE, 0>>
ToNumber(x) ==
  CASE x.t = "number" -> <<TRUE, x.v>>
    [] x.t = "string" -> <<TRUE, x.v>>
    [] x.t = "empty" -> <<TRUE, 0>>
    [] OTHER -> <<FALSE, 0>>

\* Number(x) || 0
NumberOrZero(x) == IF ToNumber(x)[1] THEN ToNumber(x)[2] ELSE 0

Max(a, b) == IF a >= b THEN a ELSE b

(***************************************************************************)
(* extractInvoiceData: the row mapping                                      *)
(***************************************************************************)
\* item.description || "Unknown Item"  (an absent description is "")
FinalDescription(d) == IF d = "" THEN "Unknown Item" ELSE d

\* faulty variant: the written order decides par even when par is written
ResolveParOrderFirst(par, inStock, extractedOrder) ==
  IF extractedOrder > 0
    THEN inStock + extractedOrder
    ELSE IF par = 0
           THEN IF inStock > 0 THEN inStock + DefaultBuffer ELSE DefaultPar
           ELSE par

\* faulty variant: the stock on hand is left out of the inferred par
ResolveParOrderOnly(par, inStock, extractedOrder) ==
  IF par = 0
    THEN IF extractedOrder > 0
           THEN extractedOrder
           ELSE IF inStock > 0 THEN inStock + DefaultBuffer ELSE DefaultPar
    ELSE par

\* faulty variant: the default par ignores the stock on hand
ResolveParFlatDefault(par, inStock, extractedOrder) ==
  IF par = 0
    THEN IF extractedOrder > 0
           THEN inStock + extractedOrder
           ELSE DefaultPar
    ELSE par

\* step 3 of the mapping: lines 121-128
ResolvePar(par, inStock, extractedOrder) ==
  IF par = 0
    THEN IF extractedOrder > 0
           THEN inStock + extractedOrder
           ELSE IF inStock > 0 THEN inStock + DefaultBuffer ELSE DefaultPar
    ELSE par

\* faulty variant: the order is always derived from par and stock
FinalOrderAlwaysDerived(extractedOrder, par, inStock) ==
  IF par > 0
    THEN Max(0, par - inStock)
    ELSE extractedOrder

\* lines 133-138
FinalOrder(extractedOrder, par, inStock) ==
  IF extractedOrder = 0 /\ par > 0
    THEN Max(0, par - inStock)
    ELSE extractedOrder

\* the callback of itemsList.map
MapRow(item, vendorName, id) ==
  LET inStock == NumberOrZero(item.column1_inStock)
      extractedOrder == NumberOrZero(item.column3_order)
      par == ResolvePar(NumberOrZero(item.column2_par), inStock, extractedOrder)
      price == NumberOrZero(item.column4_price)
  IN [id |-> id,
      description |-> FinalDescription(item.description),
      vendor |-> vendorName,
      inStock |-> Num(inStock),
      par |-> Num(par),
      order |-> Num(FinalOrder(extractedOrder, par, inStock)),
      price |-> Num(price)]

\* `item-${Date.now()}-${uniqueId}`: the random draw uniqueId is modelled as a
\* value that no other draw returns (the scan's serial number and the row's
\* index), which is the best case for the ids; next to such a draw the
\* Date.now() prefix decides nothing about two ids being equal, and is left out
ItemId(scanNo, idx) == <<"item", scanNo, idx>>

\* itemsList.map(...) over the rows of a parsed response
MapRows(response, scanNo) ==
  [i \in 1..Len(response.items) |->
     MapRow(response.items[i], response.vendorName, ItemId(scanNo, i))]

(***************************************************************************)
(* extractInvoiceData: from the response of the model to the items          *)
(***************************************************************************)
\* What generateContent came back with.  kind tells what response.text is:
\*   "rejected"   the call threw,
\*   "undefined"  no text,             "empty"  the text "",
\*   "malformed"  a text that is no JSON,
\*   "null"       the JSON text null,
\*   "array"      the JSON text of the list `items`,
\*   "nullRow"    the JSON text [null],
\*   "object"     the JSON text of an object, with the member vendorName when
\*                vendorName is not "", and the member items when hasItems
Response(kind, vendorName, hasItems, rows) ==
  [kind |-> kind, vendorName |-> vendorName, hasItems |-> hasItems, items |-> rows]

\* rawData.vendorName.trim()
Trim(v) ==
  CASE v = " General Produce " -> "General Produce"
    [] OTHER -> v

\* how a run of the function ends: with the exception `error`, or with `its`
Thrown(error) == [thrown |-> TRUE, items |-> <<>>, error |-> error]
Returned(its) == [thrown |-> FALSE, items |-> its, error |-> ""]

\* lines 48-152, the body of the try block: generateContent rejects, JSON.parse
\* throws a SyntaxError, rawData.items of null and item.column1_inStock of
\* null throw a TypeError
TryBlock(response, scanNo) ==
  CASE response.kind = "rejected" -> Thrown("ApiError")
    [] response.kind \in {"undefined", "empty"} -> Returned(<<>>)
    [] response.kind = "malformed" -> Thrown("SyntaxError")
    [] response.kind = "null" -> Thrown("TypeError")
    [] response.kind = "nullRow" -> Thrown("TypeError")
    [] response.kind = "array" ->
         Returned(MapRows([vendorName |-> "", items |-> response.items], scanNo))
    [] response.kind = "object" ->
         Returned(MapRows([vendorName |-> Trim(response.vendorName),
                           items |-> IF response.hasItems THEN response.items ELSE <<>>],
                          scanNo))

ExtractionError == "Failed to extract data from the invoice. Please try again."

\* faulty variant: the exception is thrown on as it is
CaughtAsIs(outcome) == outcome

\* lines 154-157: the catch block
Caught(outcome) == IF outcome.thrown THEN Thrown(ExtractionError) ELSE outcome

ExtractInvoiceData(response, scanNo) == Caught(TryBlock(response, scanNo))

(***************************************************************************)
(* Raw rows the normalization is checked on                                 *)
(***************************************************************************)
RawNumbers == {Num(n) : n \in (0 - MaxRaw)..MaxRaw} \cup {Absent, NotANumberText}

RawRows ==
  [description : {"Rice", ""},
   column1_inStock : RawNumbers,
   column2_par : RawNumbers,
   column3_order : RawNumbers,
   column4_price : {Absent, Num(0 - 1), Num(2)}]

(***************************************************************************)
(* Responses of the model used by the application runs                      *)
(***************************************************************************)
Row(d, s, p, o, c) ==
  [description |-> d, column1_inStock |-> s, column2_par |-> p,
   column3_order |-> o, column4_price |-> c]

DocRice ==
  [vendorName |-> "Asian Vegetables",
   items |-> <<Row("Rice", Num(3), Num(0), Num(0), Absent)>>]

DocTwo ==
  [vendorName |-> "General Produce",
   items |-> <<Row("banana", Num(1), Absent, Num(2), Num(2)),
               Row("Apple", Num(2), Num(3), Num(0), Absent)>>]

DocEmpty == [vendorName |-> "", items |-> <<>>]

Docs == {DocRice, DocTwo, DocEmpty}

(***************************************************************************)
(* Comparison of descriptions: a.description.toLowerCase()                  *)
(*   .localeCompare(b.description.toLowerCase())                            *)
(* over the descriptions that occur in the model                            *)
(***************************************************************************)
ToLowerCase(d) ==
  CASE d = "Rice" -> "rice"
    [] d = "Apple" -> "apple"
    [] d = "Unknown Item" -> "unknown item"
    [] d = "Connection Test" -> "connection test"
    [] OTHER -> d

\* position of a lower-case description in collation order
CollationRank(d) ==
  CASE d = "" -> 0
    [] d = "apple" -> 1
    [] d = "banana" -> 2
    [] d = "connection test" -> 3
    [] d = "rice" -> 4
    [] d = "unknown item" -> 5
    [] OTHER -> 6

LocaleCompare(a, b) ==
  IF CollationRank(a) < CollationRank(b) THEN 0 - 1
  ELSE IF CollationRank(a) > CollationRank(b) THEN 1 ELSE 0

\* faulty variant: the descriptions are compared as they are written
CompareItemsAsWritten(a, b) == LocaleCompare(a.description, b.description)

CompareItems(a, b) == LocaleCompare(ToLowerCase(a.description), ToLowerCase(b.description))

\* Array.prototype.sort is stable: x goes behind every element that does not
\* compare greater than it
RECURSIVE InsertSorted(_, _)
InsertSorted(sorted, x) ==
  IF sorted = <<>> THEN <<x>>
  ELSE IF CompareItems(sorted[Len(sorted)], x) > 0
         THEN Append(InsertSorted(SubSeq(sorted, 1, Len(sorted) - 1), x), sorted[Len(sorted)])
         ELSE Append(sorted, x)

RECURSIVE SortedCopy(_)
SortedCopy(seq) ==
  IF seq = <<>> THEN <<>>
  ELSE InsertSorted(SortedCopy(SubSeq(seq, 1, Len(seq) - 1)), seq[Len(seq)])

(***************************************************************************)
(* uploadToScript: the request and the reading of the response              *)
(***************************************************************************)
\* a text as the sequence of its characters
Success == <<"S", "u", "c", "c", "e", "s", "s">>
SuccessNoRows == Success \o <<":", " ", "0", " ", "r", "o", "w", "s">>
ErrorLocked == <<"E", "r", "r", "o", "r", ":", " ", "l", "o", "c", "k", "e", "d">>
SuccessInMarkup == <<"<", "p", ">">> \o Success \o <<"<", "/", "p", ">">>
LowerCaseSuccess == <<"s", "u", "c", "c", "e", "s", "s">>
Incomplete == <<"S", "u", "c", "c", "e", "s">>

\* what fetch() and response.text() can come back with: a body, whatever the
\* HTTP status, or an exception
Replies ==
  {[thrown |-> FALSE, text |-> b] :
     b \in {Success, SuccessNoRows, ErrorLocked, SuccessInMarkup, LowerCaseSuccess,
            Incomplete, <<>>}}
  \cup {[thrown |-> TRUE, text |-> <<>>]}

\* the replies the application runs draw from
AppReplies ==
  {[thrown |-> FALSE, text |-> SuccessNoRows], [thrown |-> FALSE, text |-> ErrorLocked],
   [thrown |-> TRUE, text |-> <<>>]}

\* text.includes(sub)
Includes(text, sub) ==
  \E i \in 0..(Len(text) - Len(sub)) : SubSeq(text, i + 1, i + Len(sub)) = sub

\* faulty variant: the body has to be the word itself
UploadResultExact(reply) == ~reply.thrown /\ reply.text = Success

\* lines 173-185: the value uploadToScript returns for a reply
UploadResult(reply) == ~reply.thrown /\ Includes(reply.text, Success)

\* JSON.stringify of a field: a number stays a number and a text a text, NaN
\* becomes null
JsonNull == [t |-> "null", v |-> 0]
JsonValue(x) == IF x.t = "NaN" THEN JsonNull ELSE x

\* faulty variant: the item goes out as it is, its id included
PayloadRowWhole(i) == i

\* lines 155-162 and 170: the parsed form of JSON.stringify({ items: payload })
PayloadRow(i) ==
  [inStock |-> JsonValue(i.inStock), par |-> JsonValue(i.par), order |-> JsonValue(i.order),
   description |-> i.description, vendor |-> i.vendor, price |-> JsonValue(i.price)]

Payload(dataToUpload) ==
  LET sortedData == SortedCopy(dataToUpload)
  IN [k \in DOMAIN sortedData |-> PayloadRow(sortedData[k])]

\* the request of line 166
UploadRequest(dataToUpload, currentScriptUrl) ==
  [url |-> currentScriptUrl, method |-> "POST", contentType |-> "text/plain",
   body |-> [items |-> Payload(dataToUpload)]]

(***************************************************************************)
(* copyToClipboard: the text handed to the clipboard                        *)
(***************************************************************************)
\* `${x}` of a field: the decimal text of a number, the text of an input as it
\* is, "NaN" for NaN
TemplateText(x) ==
  CASE x.t = "number" -> Str(x.v)
    [] x.t = "NaN" -> NotANumberText
    [] OTHER -> x

\* a text is the sequence of its pieces: the characters of a field, a tab, a
\* line feed
Chars(text) == [t |-> "chars", v |-> text]
Tab == [t |-> "tab", v |-> 0]
LineFeed == [t |-> "lf", v |-> 0]

\* parts.join(sep), and the template of line 331, which is its six fields
\* with a tab between each two
RECURSIVE Joined(_, _)
Joined(parts, sep) ==
  IF parts = <<>> THEN <<>>
  ELSE IF Len(parts) = 1 THEN parts[1]
  ELSE parts[1] \o <<sep>> \o Joined(Tail(parts), sep)

\* one line of line 331
TsvLine(i) ==
  Joined(<< <<Chars(i.vendor)>>, <<Chars(i.description)>>, <<TemplateText(i.inStock)>>,
            <<TemplateText(i.par)>>, <<TemplateText(i.order)>>,
            <<TemplateText(i.price)>> >>, Tab)

\* faulty variant: every line ends with a line feed
TsvContentTerminated(its) ==
  LET exportData == SortedCopy(its)
      lines == [k \in DOMAIN exportData |-> Append(TsvLine(exportData[k]), LineFeed)]
  IN IF lines = <<>> THEN <<>> ELSE Joined(lines, LineFeed)

\* tsvContent for the collection `its`: exportData.map(...).join('\n')
TsvContent(its) ==
  LET exportData == SortedCopy(its)
  IN Joined([k \in DOMAIN exportData |-> TsvLine(exportData[k])], LineFeed)

(***************************************************************************)
(* Array objects.  A record of the history holds the very array object the  *)
(* collection was when it was exported; Array.prototype.sort reorders the   *)
(* array object it is called on.                                            *)
(***************************************************************************)
\* an array object held by no record
Unrecorded == [k |-> "unrecorded", n |-> 0]
\* the array object first stored by the n-th record ever made
RecordArray(n) == [k |-> "record", n |-> n]
\* the array a spread [...x] makes
Copy == [k |-> "copy", n |-> 0]
\* the array extractInvoiceData returned
Extracted == [k |-> "extracted", n |-> 0]

\* faulty variants: sort() is called on the array itself
SortItemsTargetInPlace(prev) == prev
UploadSortTargetInPlace(dataToUpload) == dataToUpload
ExportDataTargetInPlace(its) == its

\* the array object sort() is called on at line 309: [...prev]
SortItemsTarget(prev) == Copy
\* at line 151: [...dataToUpload]
UploadSortTarget(dataToUpload) == Copy
\* at line 316: [...items]
ExportDataTarget(its) == Copy

\* the records after sort() has made the array object `target` hold `sorted`
RecordsWritten(hist, held, target, sorted) ==
  [h \in DOMAIN hist |->
     IF held[h] = target THEN [hist[h] EXCEPT !.items = sorted] ELSE hist[h]]

\* the collection after sort() has made the array object `target` hold `sorted`
ItemsWritten(live, its, target, sorted) == IF target = live THEN sorted ELSE its

(***************************************************************************)
(* State of the App component and of its environment                        *)
(***************************************************************************)
VARIABLES
  view,             \* AppView
  items,            \* Review State: sequence of InvoiceItem
  isProcessing,
  loadingStep,      \* "null" | "analyzing" | "uploading"
  history,          \* sequence of InvoiceRecord, newest first
  scanMode,         \* "new" | "append"
  showExportModal,
  settings,         \* AppSettings
  now,              \* Date.now() as last read
  picker,           \* "closed", or the mode of the triggerScan call that opened the file picker
  scans,            \* handleFileUpload invocations in flight
  nScans,           \* handleFileUpload invocations so far
  exports,          \* handleManualExport invocations in flight
  ops,              \* operations of the user so far
  timers,           \* pending setTimeout callbacks
  rawRow,           \* the row under normalization (normalization runs only)
  mapped,           \* its InvoiceItem (normalization runs only)
  posts,            \* the requests fetch() was called with, oldest first
  clipboard,        \* the texts navigator.clipboard.writeText was called with, oldest first
  arrays,           \* which array objects the collection and the records hold
  call,             \* the function call under study (function runs only)
  returned,         \* what it returned or threw (function runs only)
  storage,          \* localStorage: the texts under the two keys
  boot,             \* how far the start of the page has come, and what it read
  alerts            \* the alert() boxes the page has raised, oldest first

vars == <<view, items, isProcessing, loadingStep, history, scanMode, showExportModal,
          settings, now, picker, scans, nScans, exports, ops, timers,
          rawRow, mapped,
                 posts, clipboard, arrays, call, returned, storage, boot, alerts>>

DEFAULT_SHEET_URL == "https://docs.google.com/spreadsheets/d/1c9qt5RejeAZ"
ScriptUrls == {"", "https://script.google.com/macros/s/x/exec"}
SheetUrls == {DEFAULT_SHEET_URL, "https://docs.google.com/spreadsheets/d/other"}

\* the initial value of the settings state, and the defaults of the load
DefaultSettings ==
  [googleSheetUrl |-> DEFAULT_SHEET_URL, scriptUrl |-> "", autoExport |-> TRUE]

(***************************************************************************)
(* localStorage and JSON.  An entry is missing ("none"), or holds a text    *)
(* that is no JSON ("malformed"), the JSON text null ("null"), or the JSON  *)
(* text of `value` ("json").                                                *)
(***************************************************************************)
Stored(kind, value) == [kind |-> kind, value |-> value]

\* the members of a settings object in JSON; a member that is not there
\* reads as "" (scriptUrl, googleSheetUrl) or "missing" (autoExport)
NoMembers == [googleSheetUrl |-> "", scriptUrl |-> "", autoExport |-> "missing"]

\* JSON.stringify(settings)
StringifySettings(st) ==
  Stored("json", [googleSheetUrl |-> st.googleSheetUrl, scriptUrl |-> st.scriptUrl,
                  autoExport |-> IF st.autoExport THEN "true" ELSE "false"])

\* JSON.stringify(history): the numbers and texts of the items as JSON values
StringifyItem(i) ==
  [i EXCEPT !.inStock = JsonValue(@), !.par = JsonValue(@), !.order = JsonValue(@),
            !.price = JsonValue(@)]

StringifyHistory(hist) ==
  Stored("json", [h \in DOMAIN hist |->
                    [hist[h] EXCEPT !.items = [k \in DOMAIN @ |-> StringifyItem(@[k])]]])

\* faulty variant: the stored sheet URL is taken over
LoadedSettingsAsStored(saved) ==
  IF saved.kind # "json"
    THEN DefaultSettings
    ELSE [scriptUrl |-> saved.value.scriptUrl,
          googleSheetUrl |-> saved.value.googleSheetUrl,
          autoExport |-> saved.value.autoExport # "false"]

\* lines 108-123: what setSettings is called with.  A missing entry and a
\* text that is no JSON give the defaults, and so does null, whose member
\* scriptUrl cannot be read
LoadedSettings(saved) ==
  IF saved.kind # "json"
    THEN DefaultSettings
    ELSE [scriptUrl |-> saved.value.scriptUrl,
          googleSheetUrl |-> DEFAULT_SHEET_URL,
          autoExport |-> saved.value.autoExport # "false"]

\* lines 99-106: whether setHistory is called, and with what; JSON.parse of
\* the text null gives null, which is no list
LoadedHistory(saved) ==
  [called |-> saved.kind \in {"json", "null"}, list |-> saved.kind = "json",
   value |-> saved.value]

\* the texts of a page that was opened on an empty localStorage
FreshStorage ==
  [history |-> StringifyHistory(<<>>), settings |-> StringifySettings(DefaultSettings)]

\* how far the start of the page has come: "constructed" (before the effects
\* of the first render), "mounted" (the effects have run, the state they set
\* is not rendered yet), "running", "crashed" (a render threw); and what the
\* load effect read
Boot(phase, savedHistory, savedSettings) ==
  [phase |-> phase, savedHistory |-> savedHistory, savedSettings |-> savedSettings]


RemoveAt(seq, i) == SubSeq(seq, 1, i - 1) \o SubSeq(seq, i + 1, Len(seq))

\* lines 75-95: the state of a page that has just been constructed
Constructed ==
  /\ view = "DASHBOARD"
  /\ items = <<>>
  /\ isProcessing = FALSE
  /\ loadingStep = "null"
  /\ history = <<>>
  /\ scanMode = "new"
  /\ showExportModal = FALSE
  /\ settings = DefaultSettings
  /\ picker = "closed"
  /\ scans = <<>>
  /\ exports = <<>>
  /\ timers = [home |-> 0, sheet |-> 0]
  /\ arrays = [live |-> Unrecorded, records |-> <<>>]

\* nothing has happened around the page yet
Untouched ==
  /\ now = 0
  /\ nScans = 0
  /\ ops = 0
  /\ posts = <<>>
  /\ clipboard = <<>>
  /\ alerts = <<>>

\* a page that was opened on an empty localStorage and has rendered what its
\* load effect set
AppInit ==
  /\ Constructed
  /\ Untouched
  /\ storage = FreshStorage
  /\ boot = Boot("running", Stored("none", <<>>), Stored("none", NoMembers))

Init == AppInit /\ rawRow = <<>> /\ mapped = <<>> /\ call = <<>> /\ returned = <<>>

\* Date.now(): the clock has stood still since it was last read, or has moved on
ClockReadings == {now, now + 1}

\* one more operation of the user
Spend == ops < MaxOps /\ ops' = ops + 1

\* what the user can reach on screen
InReview == view \in {"REVIEW", "HISTORY"}
ModalUp == InReview /\ showExportModal
ReviewControls == InReview /\ ~ModalUp /\ picker = "closed"
DashboardControls == view = "DASHBOARD" /\ picker = "closed"

(***************************************************************************)
(* Scanning: triggerScan and handleFileUpload                               *)
(***************************************************************************)
TriggerScan(mode) ==
  /\ \/ mode = "new" /\ DashboardControls
     \/ mode = "append" /\ ReviewControls
  /\ scanMode' = mode
  /\ picker' = mode
  /\ UNCHANGED <<view, items, isProcessing, loadingStep, history, showExportModal,
                 settings, now, scans, nScans, exports, ops, timers,
                 rawRow, mapped,
                 posts, clipboard, arrays, call, returned,
                 storage, boot,
                 alerts>>

\* the picker is dismissed, or the change event carries no file
HandleFileUploadNoFile ==
  /\ picker # "closed"
  /\ picker' = "closed"
  /\ UNCHANGED <<view, items, isProcessing, loadingStep, history, scanMode,
                 showExportModal, settings, now, scans, nScans, exports, ops, timers, rawRow, mapped,
                 posts, clipboard, arrays, call, returned,
                 storage, boot,
                 alerts>>

\* handleFileUpload up to its first await; scanMode and settings are the
\* values of the render that created the handler
HandleFileUpload ==
  /\ picker # "closed"
  /\ Spend
  /\ picker' = "closed"
  /\ nScans' = nScans + 1
  /\ scans' = Append(scans, [no |-> nScans + 1, triggered |-> picker, mode |-> scanMode,
                             settings |-> settings, pc |-> "reading", extracted |-> <<>>])
  /\ isProcessing' = TRUE
  /\ loadingStep' = "analyzing"
  /\ view' = "SCAN"
  /\ UNCHANGED <<items, history, scanMode, showExportModal, settings, now, exports, timers, rawRow, mapped,
                 posts, clipboard, arrays, call, returned,
                 storage, boot,
                 alerts>>

\* resizeImage / FileReader resolves; extractInvoiceData is called
FileRead(i) ==
  /\ i \in DOMAIN scans
  /\ scans[i].pc = "reading"
  /\ scans' = [scans EXCEPT ![i].pc = "extracting"]
  /\ UNCHANGED <<view, items, isProcessing, loadingStep, history, scanMode,
                 showExportModal, settings, now, picker, nScans, exports, ops, timers, rawRow, mapped,
                 posts, clipboard, arrays, call, returned,
                 storage, boot,
                 alerts>>

\* line 268-273: the read of the file throws; the outer catch leaves the view
\* as it is.  (A FileReader that fails calls no handler of lines 208-220, and
\* the scan then stays where it is for good.)
FileReadThrows(i) ==
  /\ i \in DOMAIN scans
  /\ scans[i].pc = "reading"
  /\ isProcessing' = FALSE
  /\ loadingStep' = "null"
  /\ scans' = RemoveAt(scans, i)
  /\ alerts' = Append(alerts, "Error reading file.")
  /\ UNCHANGED <<view, items, history, scanMode, showExportModal, settings, now, picker,
                 nScans, exports, ops, timers, rawRow, mapped,
                 posts, clipboard, arrays, call, returned,
                 storage, boot>>

\* faulty variant: the updater reads the scanMode of the latest render
AppliedModeCurrent(scan) == scanMode

\* the scanMode the updater of setItems reads
AppliedMode(scan) == scan.mode

\* setItems(prev => scanMode === 'append' ? [...prev, ...extractedItems] : extractedItems)
MergeExtracted(mode, prev, extractedItems) ==
  IF mode = "append" THEN prev \o extractedItems ELSE extractedItems

\* the end of the inner try block and its finally
FinishScan(i, extractedItems) ==
  /\ items' = MergeExtracted(AppliedMode(scans[i]), items, extractedItems)
  /\ view' = "REVIEW"
  /\ isProcessing' = FALSE
  /\ loadingStep' = "null"
  /\ scans' = RemoveAt(scans, i)
  /\ arrays' = [arrays EXCEPT !.live = Unrecorded]

ExtractionSucceeds(i, doc) ==
  /\ i \in DOMAIN scans
  /\ scans[i].pc = "extracting"
  /\ LET extractedItems == MapRows(doc, scans[i].no)
     IN IF scans[i].settings.autoExport /\ scans[i].settings.scriptUrl # ""
          THEN /\ loadingStep' = "uploading"
               /\ scans' = [scans EXCEPT ![i].pc = "delay", ![i].extracted = extractedItems]
               /\ UNCHANGED <<view, items, isProcessing, showExportModal, arrays>>
          ELSE /\ FinishScan(i, extractedItems)
               /\ UNCHANGED showExportModal
  /\ UNCHANGED <<history, scanMode, settings, now, picker, nScans, exports, ops, timers,
                 rawRow, mapped, posts, clipboard, call, returned,
                 storage, boot,
                 alerts>>

\* faulty variant: a failed scan always ends on the dashboard
ViewAfterFailureDashboard(scan) == "DASHBOARD"

\* lines 262-263: the scanMode of the render that made the handler decides
ViewAfterFailure(scan) == IF scan.mode = "append" THEN "REVIEW" ELSE "DASHBOARD"

\* extractInvoiceData throws: the inner catch and finally
ExtractionFails(i) ==
  /\ i \in DOMAIN scans
  /\ scans[i].pc = "extracting"
  /\ view' = ViewAfterFailure(scans[i])
  /\ isProcessing' = FALSE
  /\ loadingStep' = "null"
  /\ scans' = RemoveAt(scans, i)
  /\ alerts' = Append(alerts, "Failed to extract data.")
  /\ UNCHANGED <<items, history, scanMode, showExportModal, settings, now, picker,
                 nScans, exports, ops, timers, rawRow, mapped,
                 posts, clipboard, arrays, call, returned,
                 storage, boot>>

\* faulty variant: the auto-export uploads what the collection is about to be
AutoExportDataMerged(scan) == MergeExtracted(scan.mode, items, scan.extracted)

\* line 235: the first argument of uploadToScript is extractedItems
AutoExportData(scan) == scan.extracted

\* the 500 ms delay ends; uploadToScript(extractedItems, settings.scriptUrl)
\* sorts and issues its POST
AutoExportDelayElapsed(i) ==
  /\ i \in DOMAIN scans
  /\ scans[i].pc = "delay"
  /\ posts' = Append(posts, UploadRequest(AutoExportData(scans[i]),
                                          scans[i].settings.scriptUrl))
  /\ scans' = [scans EXCEPT ![i].pc = "posting",
                            ![i].extracted = ItemsWritten(Extracted, @, UploadSortTarget(Extracted),
                                                          SortedCopy(@))]
  /\ UNCHANGED <<view, items, isProcessing, loadingStep, history, scanMode,
                 showExportModal, settings, now, picker, nScans, exports, ops, timers,
                 rawRow, mapped, clipboard, arrays, call, returned,
                 storage, boot,
                 alerts>>

\* the request settles and uploadToScript returns
AutoExportSettles(i, reply) ==
  /\ i \in DOMAIN scans
  /\ scans[i].pc = "posting"
  /\ showExportModal' = IF UploadResult(reply) THEN showExportModal ELSE TRUE
  /\ FinishScan(i, scans[i].extracted)
  /\ UNCHANGED <<history, scanMode, settings, now, picker, nScans, exports, ops, timers,
                 rawRow, mapped, posts, clipboard, call, returned,
                 storage, boot,
                 alerts>>

(***************************************************************************)
(* Review State: updateItem, deleteItem, addItem, sortItems                 *)
(***************************************************************************)
NaN == [t |-> "NaN", v |-> 0]

\* Number(value)
JsNumber(x) == IF ToNumber(x)[1] THEN Num(ToNumber(x)[2]) ELSE NaN

\* Math.max(0, par - inStock)
MaxZeroDifference(par, inStock) ==
  IF ToNumber(par)[1] /\ ToNumber(inStock)[1]
    THEN Num(Max(0, ToNumber(par)[2] - ToNumber(inStock)[2]))
    ELSE NaN

\* faulty variant: the order is derived from the fields as they were before the edit
UpdatedItemStale(item, field, value) ==
  LET updated == [item EXCEPT ![field] = value]
  IN IF field = "inStock" \/ field = "par"
       THEN [updated EXCEPT !.order = MaxZeroDifference(item.par, item.inStock)]
       ELSE updated

\* faulty variant: the order is derived again after the edit of any field
UpdatedItemAlwaysDerived(item, field, value) ==
  LET updated == [item EXCEPT ![field] = value]
  IN [updated EXCEPT !.order = MaxZeroDifference(updated.par, updated.inStock)]

\* the callback of prev.map for the item whose id matches
UpdatedItem(item, field, value) ==
  LET updated == [item EXCEPT ![field] = value]
  IN IF field = "inStock" \/ field = "par"
       THEN LET inStock == IF field = "inStock" THEN JsNumber(value) ELSE item.inStock
                par == IF field = "par" THEN JsNumber(value) ELSE item.par
            IN [updated EXCEPT !.order = MaxZeroDifference(par, inStock)]
       ELSE updated

UpdateItem(prev, id, field, value) ==
  [k \in DOMAIN prev |-> IF prev[k].id # id THEN prev[k] ELSE UpdatedItem(prev[k], field, value)]

\* what the inputs of a row hand to updateItem: the text of the input, and for
\* the order column Number(e.target.value)
EditableFields == {"vendor", "description", "inStock", "par", "order", "price"}
InputsOf(field) ==
  CASE field = "vendor" -> {"Frozen Goods"}
    [] field = "description" -> {"apple"}
    [] field = "inStock" -> {Str(4)}
    [] field = "par" -> {EmptyStr}
    [] field = "order" -> {Str(4)}
    [] field = "price" -> {Str(4)}
PassedValue(field, input) == IF field = "order" THEN JsNumber(input) ELSE input

EditRow(k, field, input) ==
  /\ ReviewControls
  /\ k \in DOMAIN items
  /\ Spend
  /\ items' = UpdateItem(items, items[k].id, field, PassedValue(field, input))
  /\ arrays' = [arrays EXCEPT !.live = Unrecorded]
  /\ UNCHANGED <<view, isProcessing, loadingStep, history, scanMode, showExportModal,
                 settings, now, picker, scans, nScans, exports, timers,
                 rawRow, mapped, posts, clipboard, call, returned,
                 storage, boot,
                 alerts>>

DeleteItem(prev, id) == SelectSeq(prev, LAMBDA i : i.id # id)

DeleteRow(k) ==
  /\ ReviewControls
  /\ k \in DOMAIN items
  /\ Spend
  /\ items' = DeleteItem(items, items[k].id)
  /\ arrays' = [arrays EXCEPT !.live = Unrecorded]
  /\ UNCHANGED <<view, isProcessing, loadingStep, history, scanMode, showExportModal,
                 settings, now, picker, scans, nScans, exports, timers,
                 rawRow, mapped, posts, clipboard, call, returned,
                 storage, boot,
                 alerts>>

\* id: `manual-${Date.now()}`
NewItem(t) ==
  [id |-> <<"manual", t>>, description |-> "", vendor |-> "",
   inStock |-> Num(0), par |-> Num(ManualPar), order |-> Num(ManualOrder), price |-> Num(0)]

AddItem ==
  /\ ReviewControls
  /\ Spend
  /\ \E t \in ClockReadings :
       /\ now' = t
       /\ items' = Append(items, NewItem(t))
  /\ arrays' = [arrays EXCEPT !.live = Unrecorded]
  /\ UNCHANGED <<view, isProcessing, loadingStep, history, scanMode, showExportModal,
                 settings, picker, scans, nScans, exports, timers,
                 rawRow, mapped, posts, clipboard, call, returned,
                 storage, boot,
                 alerts>>

\* setItems(prev => [...prev].sort(...)): sort() reorders the array it is
\* called on and returns it
SortItems ==
  /\ ReviewControls
  /\ Spend
  /\ LET target == SortItemsTarget(arrays.live)
     IN /\ items' = SortedCopy(items)
        /\ history' = RecordsWritten(history, arrays.records, target, SortedCopy(items))
        /\ arrays' = [arrays EXCEPT !.live = IF target = Copy THEN Unrecorded ELSE target]
  /\ UNCHANGED <<view, isProcessing, loadingStep, scanMode, showExportModal,
                 settings, now, picker, scans, nScans, exports, timers,
                 rawRow, mapped, posts, clipboard, call, returned,
                 storage, boot,
                 alerts>>

(***************************************************************************)
(* Export: handleManualExport, and the history list                         *)
(***************************************************************************)
NewRecord(t, its) ==
  [id |-> t, date |-> t, items |-> its, totalItems |-> Len(its), status |-> "Uploaded"]

\* faulty variant: the new record goes behind the others
Appended(newRecord, prev) == Append(prev, newRecord)

\* setHistory(prev => [newRecord, ...prev])
Prepended(newRecord, prev) == <<newRecord>> \o prev

\* handleManualExport up to its first await.  The record holds the array
\* object of the collection; then uploadToScript sorts and issues its POST when
\* a script URL is set, and copyToClipboard writes the text otherwise.  The
\* render that follows runs the effect of lines 126-128, which stores the
\* history
HandleManualExport ==
  /\ ReviewControls
  /\ Spend
  /\ \E t \in ClockReadings :
       LET held == IF arrays.live = Unrecorded THEN RecordArray(Len(history) + 1)
                                               ELSE arrays.live
           recorded == Prepended(NewRecord(t, items), history)
           holders == Prepended(held, arrays.records)
           target == IF settings.scriptUrl # "" THEN UploadSortTarget(held)
                                                ELSE ExportDataTarget(held)
       IN /\ now' = t
          /\ items' = ItemsWritten(held, items, target, SortedCopy(items))
          /\ history' = RecordsWritten(recorded, holders, target, SortedCopy(items))
          /\ arrays' = [live |-> held, records |-> holders]
  /\ IF settings.scriptUrl # ""
       THEN /\ loadingStep' = "uploading"
            /\ isProcessing' = TRUE
            /\ posts' = Append(posts, UploadRequest(items, settings.scriptUrl))
            /\ exports' = Append(exports, [items |-> items', array |-> arrays'.live,
                                           pc |-> "posting"])
            /\ UNCHANGED clipboard
       ELSE /\ clipboard' = Append(clipboard, TsvContent(items))
            /\ exports' = Append(exports, [items |-> items', array |-> arrays'.live,
                                           pc |-> "copying"])
            /\ UNCHANGED <<loadingStep, isProcessing, posts>>
  /\ storage' = [storage EXCEPT !.history = StringifyHistory(history')]
  /\ UNCHANGED <<view, scanMode, showExportModal, settings, picker, scans,
                 nScans, timers, rawRow, mapped, call, returned, boot,
                 alerts>>

\* faulty variant: the fallback copies the collection as it is when the
\* request settles
FallbackItemsCurrent(export) == items

\* line 373: copyToClipboard is the function of the render that made the
\* handler, and the items it reads (line 316) are the items of that render
FallbackItems(export) == export.items

\* the request settles and uploadToScript returns; on success the handler arms
\* the 1 s timer and returns, on failure it goes on to copyToClipboard, whose
\* items are those of the render that made the handler
ManualExportSettles(e, reply) ==
  /\ e \in DOMAIN exports
  /\ exports[e].pc = "posting"
  /\ isProcessing' = FALSE
  /\ loadingStep' = "null"
  /\ IF UploadResult(reply)
       THEN /\ timers' = [timers EXCEPT !.home = @ + 1]
            /\ exports' = RemoveAt(exports, e)
            /\ UNCHANGED <<items, history, clipboard>>
       ELSE LET target == ExportDataTarget(exports[e].array)
                sorted == SortedCopy(FallbackItems(exports[e]))
            IN /\ clipboard' = Append(clipboard, TsvContent(FallbackItems(exports[e])))
               /\ items' = ItemsWritten(arrays.live, items, target, sorted)
               /\ history' = RecordsWritten(history, arrays.records, target, sorted)
               /\ exports' = [exports EXCEPT ![e].pc = "copying"]
               /\ UNCHANGED timers
  /\ UNCHANGED <<view, scanMode, showExportModal, settings, now, picker,
                 scans, nScans, ops, rawRow, mapped, posts, arrays, call, returned,
                 storage, boot,
                 alerts>>

\* navigator.clipboard.writeText settles, granted or denied; the modal opens
ClipboardSettles(e) ==
  /\ e \in DOMAIN exports
  /\ exports[e].pc = "copying"
  /\ exports' = RemoveAt(exports, e)
  /\ showExportModal' = TRUE
  /\ UNCHANGED <<view, items, isProcessing, loadingStep, history, scanMode, settings,
                 now, picker, scans, nScans, ops, timers, rawRow, mapped,
                 posts, clipboard, arrays, call, returned,
                 storage, boot,
                 alerts>>

\* "Copy data again" in the modal: copyToClipboard of the current render
CopyAgain ==
  /\ ModalUp
  /\ Spend
  /\ LET target == ExportDataTarget(arrays.live)
     IN /\ clipboard' = Append(clipboard, TsvContent(items))
        /\ items' = ItemsWritten(arrays.live, items, target, SortedCopy(items))
        /\ history' = RecordsWritten(history, arrays.records, target, SortedCopy(items))
  /\ UNCHANGED <<view, isProcessing, loadingStep, scanMode, showExportModal, settings,
                 now, picker, scans, nScans, exports, timers, rawRow, mapped,
                 posts, arrays, call, returned,
                 storage, boot,
                 alerts>>

\* the item of the "Test Connection" button
TestItem ==
  [id |-> <<"test">>, description |-> "Connection Test", vendor |-> "Test",
   inStock |-> Num(1), par |-> Num(1), order |-> Num(0), price |-> Num(0)]

\* "Test Connection" with a script URL set: uploadToScript issues its POST
TestConnection ==
  /\ view = "SETTINGS"
  /\ picker = "closed"
  /\ settings.scriptUrl # ""
  /\ Spend
  /\ posts' = Append(posts, UploadRequest(<<TestItem>>, settings.scriptUrl))
  /\ exports' = Append(exports, [items |-> <<TestItem>>, array |-> Copy, pc |-> "testing"])
  /\ UNCHANGED <<view, items, isProcessing, loadingStep, history, scanMode,
                 showExportModal, settings, now, picker, scans, nScans, timers,
                 rawRow, mapped, clipboard, arrays, call, returned,
                 storage, boot,
                 alerts>>

\* the test request settles; only the toast tells the outcome
TestConnectionSettles(e) ==
  /\ e \in DOMAIN exports
  /\ exports[e].pc = "testing"
  /\ exports' = RemoveAt(exports, e)
  /\ UNCHANGED <<view, items, isProcessing, loadingStep, history, scanMode,
                 showExportModal, settings, now, picker, scans, nScans, ops, timers,
                 rawRow, mapped, posts, clipboard, arrays, call, returned,
                 storage, boot,
                 alerts>>

\* setTimeout(() => setView(AppView.DASHBOARD), 1000)
HomeTimerFires ==
  /\ timers.home > 0
  /\ timers' = [timers EXCEPT !.home = @ - 1]
  /\ view' = "DASHBOARD"
  /\ UNCHANGED <<items, isProcessing, loadingStep, history, scanMode, showExportModal,
                 settings, now, picker, scans, nScans, exports, ops,
                 rawRow, mapped,
                 posts, clipboard, arrays, call, returned,
                 storage, boot,
                 alerts>>

\* a card of the dashboard's history list is clicked
OpenRecord(h) ==
  /\ DashboardControls
  /\ h \in DOMAIN history
  /\ items' = history[h].items
  /\ arrays' = [arrays EXCEPT !.live = arrays.records[h]]
  /\ view' = "REVIEW"
  /\ UNCHANGED <<isProcessing, loadingStep, history, scanMode, showExportModal,
                 settings, now, picker, scans, nScans, exports, ops, timers,
                 rawRow, mapped, posts, clipboard, call, returned,
                 storage, boot,
                 alerts>>

(***************************************************************************)
(* Navigation, the export modal and the settings form                       *)
(***************************************************************************)
GoDashboard ==
  /\ view # "DASHBOARD"
  /\ ~ModalUp
  /\ picker = "closed"
  /\ view' = "DASHBOARD"
  /\ UNCHANGED <<items, isProcessing, loadingStep, history, scanMode, showExportModal,
                 settings, now, picker, scans, nScans, exports, ops, timers,
                 rawRow, mapped,
                 posts, clipboard, arrays, call, returned,
                 storage, boot,
                 alerts>>

GoSettings ==
  /\ DashboardControls
  /\ view' = "SETTINGS"
  /\ UNCHANGED <<items, isProcessing, loadingStep, history, scanMode, showExportModal,
                 settings, now, picker, scans, nScans, exports, ops, timers,
                 rawRow, mapped,
                 posts, clipboard, arrays, call, returned,
                 storage, boot,
                 alerts>>

CloseModal ==
  /\ ModalUp
  /\ showExportModal' = FALSE
  /\ UNCHANGED <<view, items, isProcessing, loadingStep, history, scanMode, settings,
                 now, picker, scans, nScans, exports, ops, timers,
                 rawRow, mapped,
                 posts, clipboard, arrays, call, returned,
                 storage, boot,
                 alerts>>

\* the "Open Sheet & Paste" link arms a 500 ms timer (one at a time here)
OpenSheetLink ==
  /\ ModalUp
  /\ timers.sheet = 0
  /\ timers' = [timers EXCEPT !.sheet = 1]
  /\ UNCHANGED <<view, items, isProcessing, loadingStep, history, scanMode,
                 showExportModal, settings, now, picker, scans, nScans, exports,
                 ops, rawRow, mapped,
                 posts, clipboard, arrays, call, returned,
                 storage, boot,
                 alerts>>

SheetTimerFires ==
  /\ timers.sheet > 0
  /\ timers' = [timers EXCEPT !.sheet = 0]
  /\ showExportModal' = FALSE
  /\ view' = "DASHBOARD"
  /\ UNCHANGED <<items, isProcessing, loadingStep, history, scanMode, settings, now,
                 picker, scans, nScans, exports, ops, rawRow, mapped,
                 posts, clipboard, arrays, call, returned,
                 storage, boot,
                 alerts>>

\* the settings form; the render that follows a change runs the effect of
\* lines 130-132, which stores the settings
SetScriptUrl(u) ==
  /\ view = "SETTINGS"
  /\ picker = "closed"
  /\ u # settings.scriptUrl
  /\ Spend
  /\ settings' = [settings EXCEPT !.scriptUrl = u]
  /\ storage' = [storage EXCEPT !.settings = StringifySettings(settings')]
  /\ UNCHANGED <<view, items, isProcessing, loadingStep, history, scanMode,
                 showExportModal, now, picker, scans, nScans, exports,
                 timers, rawRow, mapped,
                 posts, clipboard, arrays, call, returned, boot,
                 alerts>>

SetAutoExport(b) ==
  /\ view = "SETTINGS"
  /\ picker = "closed"
  /\ b # settings.autoExport
  /\ Spend
  /\ settings' = [settings EXCEPT !.autoExport = b]
  /\ storage' = [storage EXCEPT !.settings = StringifySettings(settings')]
  /\ UNCHANGED <<view, items, isProcessing, loadingStep, history, scanMode,
                 showExportModal, now, picker, scans, nScans, exports,
                 timers, rawRow, mapped,
                 posts, clipboard, arrays, call, returned, boot,
                 alerts>>

SetGoogleSheetUrl(u) ==
  /\ view = "SETTINGS"
  /\ picker = "closed"
  /\ u # settings.googleSheetUrl
  /\ Spend
  /\ settings' = [settings EXCEPT !.googleSheetUrl = u]
  /\ storage' = [storage EXCEPT !.settings = StringifySettings(settings')]
  /\ UNCHANGED <<view, items, isProcessing, loadingStep, history, scanMode,
                 showExportModal, now, picker, scans, nScans, exports,
                 timers, rawRow, mapped,
                 posts, clipboard, arrays, call, returned, boot,
                 alerts>>

Next ==
  \/ \E mode \in {"new", "append"} : TriggerScan(mode)
  \/ HandleFileUploadNoFile
  \/ HandleFileUpload
  \/ \E i \in DOMAIN scans : FileRead(i)
  \/ \E i \in DOMAIN scans : FileReadThrows(i)
  \/ \E i \in DOMAIN scans, doc \in Docs : ExtractionSucceeds(i, doc)
  \/ \E i \in DOMAIN scans : ExtractionFails(i)
  \/ \E i \in DOMAIN scans : AutoExportDelayElapsed(i)
  \/ \E i \in DOMAIN scans, reply \in AppReplies : AutoExportSettles(i, reply)
  \/ \E k \in DOMAIN items, field \in EditableFields :
       \E input \in InputsOf(field) : EditRow(k, field, input)
  \/ \E k \in DOMAIN items : DeleteRow(k)
  \/ AddItem
  \/ SortItems
  \/ HandleManualExport
  \/ \E e \in DOMAIN exports, reply \in AppReplies : ManualExportSettles(e, reply)
  \/ \E e \in DOMAIN exports : ClipboardSettles(e)
  \/ CopyAgain
  \/ TestConnection
  \/ \E e \in DOMAIN exports : TestConnectionSettles(e)
  \/ HomeTimerFires
  \/ \E h \in DOMAIN history : OpenRecord(h)
  \/ GoDashboard
  \/ GoSettings
  \/ CloseModal
  \/ OpenSheetLink
  \/ SheetTimerFires
  \/ \E u \in ScriptUrls : SetScriptUrl(u)
  \/ \E b \in BOOLEAN : SetAutoExport(b)
  \/ \E u \in SheetUrls : SetGoogleSheetUrl(u)

Spec == Init /\ [][Next]_vars

(***************************************************************************)
(* The start of the page on a localStorage that earlier pages have written  *)
(***************************************************************************)
\* a record as an earlier page stored it
StoredRecord == NewRecord(0, <<NewItem(0)>>)

\* what the history key can hold when the page starts (the text of the empty
\* list is what a start on no text leaves behind)
StoredHistories ==
  {Stored("none", <<>>), Stored("malformed", <<>>), Stored("null", <<>>),
   StringifyHistory(<<StoredRecord>>)}

\* what the settings key can hold when the page starts (the text of the
\* default settings is what a start on no text leaves behind)
StoredSettings ==
  {Stored("none", NoMembers), Stored("malformed", NoMembers), Stored("null", NoMembers),
   Stored("json", [NoMembers EXCEPT !.scriptUrl = "https://script.google.com/macros/s/x/exec"])}

\* faulty variant: the effects that store the state do not run on the first
\* render
StoredOnMountKept(stored, hist, st) == stored

\* lines 126-132 in the first render: both effects run with the state of
\* that render, the empty history and the default settings
StoredOnMount(stored, hist, st) ==
  [history |-> StringifyHistory(hist), settings |-> StringifySettings(st)]

\* the effects of the first render, in the order of the source: the load
\* (lines 98-124) reads both keys and asks for the state to be set, then the
\* two effects of lines 126-132 store the state of this render
MountEffects ==
  /\ boot.phase = "constructed"
  /\ boot' = Boot("mounted", storage.history, storage.settings)
  /\ storage' = StoredOnMount(storage, history, settings)
  /\ UNCHANGED <<view, items, isProcessing, loadingStep, history, scanMode,
                 showExportModal, settings, now, picker, scans, nScans, exports,
                 ops, timers, rawRow, mapped, posts, clipboard, arrays, call,
                 returned,
                 alerts>>

\* the render of the state that the load asked for.  The dashboard reads
\* history.length and calls history.map (lines 469-481): a history that is
\* no list makes the render throw, and React takes the page down.  Otherwise
\* the effects of lines 126-132 store the loaded state
Rerender ==
  /\ boot.phase = "mounted"
  /\ LET loaded == LoadedHistory(boot.savedHistory)
     IN IF loaded.called /\ ~loaded.list
          THEN /\ boot' = [boot EXCEPT !.phase = "crashed"]
               /\ UNCHANGED <<history, settings, arrays, storage>>
          ELSE /\ boot' = [boot EXCEPT !.phase = "running"]
               /\ history' = IF loaded.called THEN loaded.value ELSE history
               /\ settings' = LoadedSettings(boot.savedSettings)
               /\ arrays' = [live |-> Unrecorded,
                             records |-> [h \in DOMAIN history' |->
                                            RecordArray(Len(history') - h + 1)]]
               /\ storage' = [history |-> StringifyHistory(history'),
                              settings |-> StringifySettings(settings')]
  /\ UNCHANGED <<view, items, isProcessing, loadingStep, scanMode, showExportModal,
                 now, picker, scans, nScans, exports, ops, timers, rawRow, mapped,
                 posts, clipboard, call, returned,
                 alerts>>

\* the page is closed and opened again: the state of the component is
\* constructed anew, localStorage and what was sent stay
Restart ==
  /\ boot.phase \in {"running", "crashed"}
  /\ Spend
  /\ boot' = Boot("constructed", Stored("none", <<>>), Stored("none", NoMembers))
  /\ view' = "DASHBOARD"
  /\ items' = <<>>
  /\ isProcessing' = FALSE
  /\ loadingStep' = "null"
  /\ history' = <<>>
  /\ scanMode' = "new"
  /\ showExportModal' = FALSE
  /\ settings' = DefaultSettings
  /\ picker' = "closed"
  /\ scans' = <<>>
  /\ exports' = <<>>
  /\ timers' = [home |-> 0, sheet |-> 0]
  /\ arrays' = [live |-> Unrecorded, records |-> <<>>]
  /\ UNCHANGED <<now, nScans, rawRow, mapped, posts, clipboard, call, returned,
                 storage,
                 alerts>>

Running == boot.phase = "running"

InitStartup ==
  /\ Constructed
  /\ Untouched
  /\ storage \in [history : StoredHistories, settings : StoredSettings]
  /\ boot = Boot("constructed", Stored("none", <<>>), Stored("none", NoMembers))
  /\ rawRow = <<>> /\ mapped = <<>> /\ call = <<>> /\ returned = <<>>

\* the start, and what the user does with the history, the settings and the
\* rows of a record
NextStartup ==
  \/ MountEffects
  \/ Rerender
  \/ Restart
  \/ Running /\ GoSettings
  \/ Running /\ GoDashboard
  \/ Running /\ \E u \in ScriptUrls : SetScriptUrl(u)
  \/ Running /\ \E b \in BOOLEAN : SetAutoExport(b)
  \/ Running /\ \E u \in SheetUrls : SetGoogleSheetUrl(u)
  \/ Running /\ \E h \in DOMAIN history : OpenRecord(h)
  \/ Running /\ HandleManualExport
  \/ Running /\ \E e \in DOMAIN exports, reply \in AppReplies : ManualExportSettles(e, reply)
  \/ Running /\ \E e \in DOMAIN exports : ClipboardSettles(e)
  \/ Running /\ CloseModal
  \/ Running /\ HomeTimerFires
  \/ Running /\ \E k \in DOMAIN items, input \in InputsOf("vendor") :
                  EditRow(k, "vendor", input)
  \/ Running /\ \E k \in DOMAIN items : DeleteRow(k)
  \/ Running /\ AddItem

SpecStartup == InitStartup /\ [][NextStartup]_vars

(***************************************************************************)
(* Normalization runs: one raw row, mapped by the callback of               *)
(* extractInvoiceData                                                       *)
(***************************************************************************)
InitNorm ==
  /\ AppInit
  /\ \E row \in RawRows : rawRow = <<row>>
  /\ mapped = <<>>
  /\ call = <<>>
  /\ returned = <<>>

Normalize ==
  /\ mapped = <<>>
  /\ mapped' = <<MapRow(rawRow[1], "Asian Vegetables", ItemId(1, 1))>>
  /\ UNCHANGED <<view, items, isProcessing, loadingStep, history, scanMode,
                 showExportModal, settings, now, picker, scans, nScans, exports,
                 ops, timers, rawRow,
                 posts, clipboard, arrays, call, returned,
                 storage, boot,
                 alerts>>

NextNorm == Normalize

SpecNorm == InitNorm /\ [][NextNorm]_vars

(***************************************************************************)
(* Function runs of uploadToScript: one call, with a list of items and a    *)
(* script URL, and the reply its request gets                               *)
(***************************************************************************)
SampleItems ==
  {MapRows(DocTwo, 1)[1], MapRows(DocTwo, 1)[2], MapRows(DocRice, 2)[1], NewItem(0)}

\* the lists of at most two sample items
SampleLists ==
  {<<>>} \cup {<<a>> : a \in SampleItems} \cup {<<a, b>> : a \in SampleItems, b \in SampleItems}

InitUpload ==
  /\ AppInit
  /\ rawRow = <<>>
  /\ mapped = <<>>
  /\ returned = <<>>
  /\ \E d \in SampleLists, u \in ScriptUrls :
       call = <<[dataToUpload |-> d, currentScriptUrl |-> u, pc |-> "called", reply |-> <<>>]>>

\* lines 145-171: the early return, or the sort and the POST
UploadToScriptCalled ==
  /\ call[1].pc = "called"
  /\ IF call[1].currentScriptUrl = ""
       THEN /\ returned' = <<FALSE>>
            /\ call' = <<[call[1] EXCEPT !.pc = "done"]>>
            /\ UNCHANGED posts
       ELSE /\ posts' = Append(posts, UploadRequest(call[1].dataToUpload,
                                                    call[1].currentScriptUrl))
            /\ call' = <<[call[1] EXCEPT !.pc = "awaiting"]>>
            /\ UNCHANGED returned
  /\ UNCHANGED <<view, items, isProcessing, loadingStep, history, scanMode,
                 showExportModal, settings, now, picker, scans, nScans, exports,
                 ops, timers, rawRow, mapped, clipboard, arrays,
                 storage, boot,
                 alerts>>

\* lines 173-185: the reply is read
UploadToScriptSettles(reply) ==
  /\ call[1].pc = "awaiting"
  /\ returned' = <<UploadResult(reply)>>
  /\ call' = <<[call[1] EXCEPT !.pc = "done", !.reply = <<reply>>]>>
  /\ UNCHANGED <<view, items, isProcessing, loadingStep, history, scanMode,
                 showExportModal, settings, now, picker, scans, nScans, exports,
                 ops, timers, rawRow, mapped, posts, clipboard, arrays,
                 storage, boot,
                 alerts>>

NextUpload ==
  \/ UploadToScriptCalled
  \/ \E reply \in Replies : UploadToScriptSettles(reply)

SpecUpload == InitUpload /\ [][NextUpload]_vars

(***************************************************************************)
(* Function runs of the updater of sortItems: one list of items             *)
(***************************************************************************)
SortSample(n, d) == [NewItem(n) EXCEPT !.description = d]

SortSamples ==
  {SortSample(1, "Apple"), SortSample(2, "apple"), SortSample(3, "banana"), SortSample(4, "")}

\* the lists of at most three of them
SortLists ==
  {<<>>} \cup {<<a>> : a \in SortSamples}
         \cup {<<a, b>> : a \in SortSamples, b \in SortSamples}
         \cup {<<a, b, c>> : a \in SortSamples, b \in SortSamples, c \in SortSamples}

InitSort ==
  /\ AppInit
  /\ rawRow = <<>>
  /\ mapped = <<>>
  /\ returned = <<>>
  /\ \E prev \in SortLists : call = <<[prev |-> prev]>>

\* prev => [...prev].sort(...)
SortItemsUpdater ==
  /\ returned = <<>>
  /\ returned' = <<SortedCopy(call[1].prev)>>
  /\ UNCHANGED <<view, items, isProcessing, loadingStep, history, scanMode,
                 showExportModal, settings, now, picker, scans, nScans, exports,
                 ops, timers, rawRow, mapped, posts, clipboard, arrays, call,
                 storage, boot,
                 alerts>>

NextSort == SortItemsUpdater

SpecSort == InitSort /\ [][NextSort]_vars

(***************************************************************************)
(* Function runs of extractInvoiceData: one response of the model           *)
(***************************************************************************)
GatewayRows ==
  {Row("Rice", Num(3), Num(0), Num(0), Absent),
   Row("banana", Num(1), Absent, Num(2), Num(2)),
   Row("", NotANumberText, Num(3), Absent, Num(0))}

GatewayLists ==
  {<<>>} \cup {<<a>> : a \in GatewayRows} \cup {<<a, b>> : a \in GatewayRows, b \in GatewayRows}

Responses ==
  {Response(k, "", FALSE, <<>>) :
     k \in {"rejected", "undefined", "empty", "malformed", "null", "nullRow"}}
  \cup {Response("array", "", TRUE, rows) : rows \in GatewayLists}
  \cup {Response("object", v, TRUE, rows) :
          v \in {"", "Asian Vegetables", " General Produce "}, rows \in GatewayLists}
  \cup {Response("object", v, FALSE, <<>>) : v \in {"", "Asian Vegetables"}}

InitGateway ==
  /\ AppInit
  /\ rawRow = <<>>
  /\ mapped = <<>>
  /\ returned = <<>>
  /\ \E response \in Responses : call = <<[response |-> response]>>

ExtractInvoiceDataSettles ==
  /\ returned = <<>>
  /\ returned' = <<ExtractInvoiceData(call[1].response, 1)>>
  /\ UNCHANGED <<view, items, isProcessing, loadingStep, history, scanMode,
                 showExportModal, settings, now, picker, scans, nScans, exports,
                 ops, timers, rawRow, mapped, posts, clipboard, arrays, call,
                 storage, boot,
                 alerts>>

NextGateway == ExtractInvoiceDataSettles

SpecGateway == InitGateway /\ [][NextGateway]_vars

(***************************************************************************)
(* Claims about the normalization (checked under SpecNorm)                  *)
(***************************************************************************)
\* the ExtractedRow of the specification: a raw field that is absent or no
\* number counts as 0
RawOf(x) == IF x.t = "number" THEN x.v ELSE 0
Normalized == mapped # <<>>
RawInStock == RawOf(rawRow[1].column1_inStock)
RawPar == RawOf(rawRow[1].column2_par)
RawOrder == RawOf(rawRow[1].column3_order)
RawPrice == RawOf(rawRow[1].column4_price)

\* C1: a row whose raw order is not greater than 0 (absent, zero or negative)
\* gets order = max(0, par - inStock) for its resolved par; the row
\* inStock 3, par 0, order 0 becomes inStock 3, par 8, order 5
C1_OrderDerivedWithoutRawOrder ==
  Normalized =>
    /\ RawOrder <= 0 =>
         mapped[1].order = Num(Max(0, mapped[1].par.v - mapped[1].inStock.v))
    /\ (RawInStock = 3 /\ RawPar = 0 /\ RawOrder = 0) =>
         /\ mapped[1].inStock = Num(3)
         /\ mapped[1].par = Num(8)
         /\ mapped[1].order = Num(5)

\* C2: a row with raw order > 0 keeps exactly that order, whatever its raw par
\* and inStock are
C2_RawOrderKept ==
  (Normalized /\ RawOrder > 0) => mapped[1].order = Num(RawOrder)

\* a written order that differs from resolved par - inStock has been mapped
C2_Witness ==
  /\ Normalized
  /\ RawOrder > 0
  /\ mapped[1].par.v - mapped[1].inStock.v # RawOrder
  /\ mapped[1].order = Num(RawOrder)

\* C3: a row with raw par > 0 keeps exactly that par, whatever its raw
\* inStock, order and price are
C3_RawParKept ==
  (Normalized /\ RawPar > 0) => mapped[1].par = Num(RawPar)

\* a written par has been mapped next to a written order that would infer another par
C3_Witness ==
  /\ Normalized
  /\ RawPar > 0
  /\ RawOrder > 0
  /\ RawInStock + RawOrder # RawPar
  /\ RawPrice # 0
  /\ mapped[1].par = Num(RawPar)

\* C4: a row with raw par 0 and raw order > 0 gets par = inStock + raw order
C4_ParInferredFromOrder ==
  (Normalized /\ RawPar = 0 /\ RawOrder > 0) =>
    mapped[1].par = Num(mapped[1].inStock.v + RawOrder)

\* a par has been inferred from a stock on hand that is not 0
C4_Witness ==
  /\ Normalized
  /\ RawPar = 0
  /\ RawOrder > 0
  /\ mapped[1].inStock.v > 0
  /\ mapped[1].par = Num(mapped[1].inStock.v + RawOrder)

\* C5: a row with raw par 0 and raw order 0 gets par 10 when inStock is 0 and
\* par = inStock + 5 when inStock > 0
C5_DefaultPar ==
  (Normalized /\ RawPar = 0 /\ RawOrder = 0) =>
    /\ RawInStock = 0 => mapped[1].par = Num(10)
    /\ RawInStock > 0 => mapped[1].par = Num(RawInStock + 5)

\* the buffer default has been applied to a row with stock on hand
C5_Witness ==
  /\ Normalized
  /\ RawPar = 0
  /\ RawOrder = 0
  /\ RawInStock > 0
  /\ mapped[1].par = Num(RawInStock + 5)

NonNegative(item) ==
  /\ item.inStock.v >= 0
  /\ item.par.v >= 0
  /\ item.order.v >= 0
  /\ item.price.v >= 0

\* C6: every item made by the normalization, for every numeric raw input, and
\* every item made by add-row has inStock, par, order and price >= 0
C6_FieldsNonNegative ==
  /\ Normalized => NonNegative(mapped[1])
  /\ \A t \in ClockReadings : NonNegative(NewItem(t))

(***************************************************************************)
(* Claims about the Review State (checked under Spec)                       *)
(***************************************************************************)
\* C7: no two items of the collection have the same id
C7_UniqueIds ==
  \A i, j \in DOMAIN items : i # j => items[i].id # items[j].id

\* max(0, par - inStock) of an item, an empty input counting as 0
DerivedOrder(item) == Num(Max(0, item.par.v - item.inStock.v))

\* C8: after update(id, field, value) with field inStock or par the edited
\* item holds the value and its order is max(0, par - inStock) of its fields
\* after the edit; the same update applied again changes nothing
C8_EditDerivesOrder ==
  [][\A k \in DOMAIN items : \A field \in {"inStock", "par"} : \A input \in InputsOf(field) :
       EditRow(k, field, input) =>
         /\ \A j \in DOMAIN items' :
              items'[j].id = items[k].id =>
                /\ items'[j][field] = input
                /\ items'[j].order = DerivedOrder(items'[j])
         /\ UpdateItem(items', items[k].id, field, input) = items']_vars

\* an edit of inStock has clamped an order to 0, and one has left it positive
C8_Witness ==
  \E k \in DOMAIN items :
    /\ items[k].inStock = Str(4)
    /\ items[k].par.v < 4
    /\ items[k].order = Num(0)

RowKey(item) == <<item.id, item.order>>

\* scan i ends well in this step, having extracted `got`
ScanCompletes(i, got) ==
  \/ \E doc \in Docs :
       /\ ExtractionSucceeds(i, doc)
       /\ got = MapRows(doc, scans[i].no)
       /\ Len(scans') < Len(scans)
  \/ \E reply \in AppReplies :
       /\ AutoExportSettles(i, reply)
       /\ got = scans[i].extracted

\* C9: update(id, 'order', v) sets the order of the item with that id to v and
\* changes no other field of it and no item with another id; the order of an
\* item then stays as it is until inStock, par or order of that item is
\* edited: in every other step each row keeps its order in place, or the rows
\* are only moved or removed (sort, delete), or the collection is replaced
\* (a new-mode scan ends, a history record is re-opened)
C9_OrderOverride ==
  [][/\ \A k \in DOMAIN items : \A input \in InputsOf("order") :
          EditRow(k, "order", input) =>
            /\ DOMAIN items' = DOMAIN items
            /\ \A j \in DOMAIN items :
                 items'[j] = IF items[j].id = items[k].id
                               THEN [items[j] EXCEPT !.order = Num(input.v)]
                               ELSE items[j]
     /\ \/ \A j \in DOMAIN items :
               j \in DOMAIN items' /\ RowKey(items'[j]) = RowKey(items[j])
        \/ \A m \in DOMAIN items' : \E n \in DOMAIN items :
               RowKey(items[n]) = RowKey(items'[m])
        \/ \E k \in DOMAIN items : \E field \in {"inStock", "par", "order"} :
             \E input \in InputsOf(field) :
               /\ EditRow(k, field, input)
               /\ \A j \in DOMAIN items :
                    items[j].id # items[k].id =>
                      j \in DOMAIN items' /\ RowKey(items'[j]) = RowKey(items[j])
        \/ \E h \in DOMAIN history : OpenRecord(h)
        \/ \E i \in DOMAIN scans :
             scans[i].triggered = "new" /\ \E doc \in Docs : ScanCompletes(i, MapRows(doc, scans[i].no))]_vars

\* an order typed in by hand differs from max(0, par - inStock) of its item,
\* whose vendor was edited as well
C9_Witness ==
  \E k \in DOMAIN items :
    /\ items[k].order = Num(4)
    /\ DerivedOrder(items[k]) # Num(4)
    /\ items[k].vendor = "Frozen Goods"

\* [...prev, ...extractedItems] or extractedItems, by the mode of the trigger
ExpectedItems(scan, prev, got) ==
  IF scan.triggered = "append" THEN prev \o got ELSE got

\* C10: a scan triggered in append mode that ends well makes the collection
\* the collection as it was, followed by the extracted items in their order;
\* one triggered in new mode makes it the extracted items
C10_ScanMerge ==
  [][\A i \in DOMAIN scans :
       /\ \A doc \in Docs :
            (ExtractionSucceeds(i, doc) /\ Len(scans') < Len(scans)) =>
              items' = ExpectedItems(scans[i], items, MapRows(doc, scans[i].no))
       /\ \A reply \in AppReplies :
            AutoExportSettles(i, reply) =>
              items' = ExpectedItems(scans[i], items, scans[i].extracted)]_vars

\* the rows of a second scan stand behind the rows of the first
C10_Witness ==
  \E j, k \in DOMAIN items :
    /\ j < k
    /\ items[j].id = ItemId(1, 1)
    /\ items[k].id = ItemId(2, 1)

(***************************************************************************)
(* Claims about the export (uploadToScript checked under SpecUpload, the    *)
(* rest under Spec)                                                         *)
(***************************************************************************)
\* the word "Success" stands somewhere in the text
HasSuccessWord(text) ==
  \E i \in 1..Len(text) : \E j \in i..Len(text) : SubSeq(text, i, j) = Success

\* C11: uploadToScript returns true exactly when a reply came and its body
\* contains "Success" ("Success: 0 rows" is a success, "Error: locked" is
\* not); every other body and every exception gives false; with an empty URL
\* it returns false and no request is issued
C11_SuccessOnlyBySubstring ==
  returned # <<>> =>
    IF call[1].currentScriptUrl = ""
      THEN returned[1] = FALSE /\ posts = <<>>
      ELSE LET reply == call[1].reply[1]
           IN /\ Len(posts) = 1
              /\ returned[1] <=> (~reply.thrown /\ HasSuccessWord(reply.text))
              /\ (~reply.thrown /\ reply.text = SuccessNoRows) => returned[1]
              /\ reply.text = ErrorLocked => ~returned[1]
              /\ reply.thrown => ~returned[1]

\* a reply that only contains the word has been read as a success
C11_Witness ==
  /\ returned = <<TRUE>>
  /\ call[1].reply[1].text = SuccessNoRows
  /\ Len(call[1].dataToUpload) = 2

\* C12 (manual export): when no script URL is set, or the delivery fails, the
\* text of the sorted rows of the exported collection is handed to the
\* clipboard; (auto-export): when the delivery of an auto-export fails, the
\* text of the sorted extracted rows is handed to the clipboard
C12_ClipboardFallback ==
  [][/\ (HandleManualExport /\ settings.scriptUrl = "") =>
          clipboard' = Append(clipboard, TsvContent(items))
     /\ \A e \in DOMAIN exports : \A reply \in AppReplies :
          (ManualExportSettles(e, reply) /\ ~UploadResult(reply)) =>
            clipboard' = Append(clipboard, TsvContent(exports[e].items))
     /\ \A i \in DOMAIN scans : \A reply \in AppReplies :
          (AutoExportSettles(i, reply) /\ ~UploadResult(reply)) =>
            clipboard' = Append(clipboard, TsvContent(scans[i].extracted))]_vars

\* C13: a manual export puts one record with status Uploaded and the exported
\* items at the front of the history when it is requested and none when its
\* delivery ends; an auto-export that is delivered puts one record with status
\* Uploaded and the extracted items at the front of the history
C13_ExportRecorded ==
  [][/\ HandleManualExport =>
          /\ Len(history') = Len(history) + 1
          /\ history'[1].status = "Uploaded"
          /\ history'[1].items = items
     /\ \A e \in DOMAIN exports :
          ((\E reply \in AppReplies : ManualExportSettles(e, reply)) \/ ClipboardSettles(e)) =>
            history' = history
     /\ \A i \in DOMAIN scans : \A reply \in AppReplies :
          (AutoExportSettles(i, reply) /\ UploadResult(reply)) =>
            /\ Len(history') = Len(history) + 1
            /\ history'[1].status = "Uploaded"
            /\ history'[1].items = scans[i].extracted]_vars

(***************************************************************************)
(* Claims about the history and the collection under export and sort        *)
(***************************************************************************)
\* C14: every step leaves the history as it is or puts one new record in
\* front of the records that were there, which stay as they were and in
\* their order
C14_HistoryAppendOnly ==
  [][\/ history' = history
     \/ /\ Len(history') = Len(history) + 1
        /\ \A h \in DOMAIN history : history'[h + 1] = history[h]]_vars

\* a second record stands in front of an older one that holds rows
C14_Witness ==
  /\ Len(history) = 2
  /\ history[1].id > history[2].id
  /\ history[2].items # <<>>

\* C15: no step that changes the collection or the array object it is (add,
\* delete, edit, sort, the end of a scan, the re-opening of a record) changes
\* the items of a record of the history
C15_SnapshotIndependent ==
  [][(items' # items \/ arrays'.live # arrays.live) =>
       /\ Len(history') >= Len(history)
       /\ \A h \in DOMAIN history :
            history'[Len(history') - Len(history) + h].items = history[h].items]_vars

\* the rows of a record have been changed in the collection, and the record
\* holds them as they were exported
C15_Witness ==
  \E h \in DOMAIN history :
    /\ history[h].items # <<>>
    /\ Len(items) = Len(history[h].items)
    /\ \A k \in DOMAIN items : items[k].id = history[h].items[k].id
    /\ items # history[h].items
    /\ arrays.live = Unrecorded

Occurrences(seq, x) == Cardinality({k \in DOMAIN seq : seq[k] = x})

\* b holds the items of a, each as often as a does
IsPermutation(a, b) ==
  /\ Len(a) = Len(b)
  /\ \A k \in DOMAIN a : Occurrences(a, a[k]) = Occurrences(b, a[k])

\* C16: no step of an export (the request, the settling of the upload, the
\* clipboard copy, the copy from the modal, the upload of an auto-export)
\* changes the collection or the extracted rows that are about to become the
\* collection; a step that puts the same items in another order is a sort, or
\* the re-opening of a record
C16_ExportKeepsCollection ==
  [][/\ (\/ HandleManualExport
         \/ CopyAgain
         \/ \E e \in DOMAIN exports :
              (\E reply \in AppReplies : ManualExportSettles(e, reply)) \/ ClipboardSettles(e))
          => items' = items
     /\ \A i \in DOMAIN scans :
          AutoExportDelayElapsed(i) =>
            items' = items /\ scans'[i].extracted = scans[i].extracted
     /\ (items' # items /\ IsPermutation(items, items')) =>
          (SortItems \/ \E h \in DOMAIN history : OpenRecord(h))]_vars

\* the sorted rows went to the clipboard and the collection is as unsorted as
\* it was
C16_Witness ==
  /\ Len(items) = 2
  /\ items[1].description = "banana"
  /\ items[2].description = "Apple"
  /\ clipboard # <<>>
  /\ Len(clipboard[1]) = 23
  /\ clipboard[1][3] = Chars("Apple")
  /\ clipboard[1][15] = Chars("banana")

\* the place of a description in the order that ignores letter case
FoldedRank(d) ==
  CASE d = "" -> 0
    [] d \in {"apple", "Apple"} -> 1
    [] d = "banana" -> 2

WithRank(seq, r) == SelectSeq(seq, LAMBDA i : FoldedRank(i.description) = r)

\* C17: the sorted list holds the items of the list, each as often; no item
\* stands before one whose description comes earlier when letter case is
\* ignored; and the items whose descriptions are equal when letter case is
\* ignored stand in the order they had
C17_SortStableIgnoringCase ==
  returned # <<>> =>
    LET prev == call[1].prev
        sorted == returned[1]
    IN /\ IsPermutation(prev, sorted)
       /\ \A j, k \in DOMAIN sorted :
            j < k => FoldedRank(sorted[j].description) <= FoldedRank(sorted[k].description)
       /\ \A r \in 0..2 : WithRank(sorted, r) = WithRank(prev, r)

\* "apple" stood before "Apple" behind "banana", and stands before it in front
C17_Witness ==
  /\ returned # <<>>
  /\ Len(returned[1]) = 3
  /\ call[1].prev[1].description = "banana"
  /\ returned[1][1].description = "apple"
  /\ returned[1][2].description = "Apple"
  /\ returned[1][3].description = "banana"

(***************************************************************************)
(* Claims about the flow of the handlers                                    *)
(***************************************************************************)
\* the scans whose extraction call is in flight, and the exports (of a scan
\* or of the export button) whose request to the script is in flight
ExtractionsInFlight == {i \in DOMAIN scans : scans[i].pc = "extracting"}
UploadsInFlight ==
  Cardinality({i \in DOMAIN scans : scans[i].pc = "posting"})
  + Cardinality({e \in DOMAIN exports : exports[e].pc = "posting"})

\* C18: at most one extraction call and at most one request to the script is
\* in flight at any time
C18_OneCallInFlight ==
  /\ Cardinality(ExtractionsInFlight) <= 1
  /\ UploadsInFlight <= 1

\* C19: the step in which a handler deals with a failure (the file cannot be
\* read, the extraction throws, the upload of an auto-export or of a manual
\* export fails, the clipboard copy of a manual export settles) leaves
\* isProcessing false, loadingStep null and a view other than SCAN
C19_InteractiveAfterFailure ==
  [][(\/ \E i \in DOMAIN scans :
           \/ FileReadThrows(i)
           \/ ExtractionFails(i)
           \/ \E reply \in AppReplies : AutoExportSettles(i, reply) /\ ~UploadResult(reply)
      \/ \E e \in DOMAIN exports :
           \/ \E reply \in AppReplies : ManualExportSettles(e, reply) /\ ~UploadResult(reply)
           \/ ClipboardSettles(e))
       => (~isProcessing' /\ loadingStep' = "null" /\ view' # "SCAN")]_vars

(***************************************************************************)
(* Claims about the gateway (checked under SpecGateway)                     *)
(***************************************************************************)
\* C20: a response whose text is a bare list of rows, or an object with an
\* items list, gives one item for each row and no error; a response whose
\* text cannot be parsed gives the empty list and no error
C20_DefensiveParse ==
  returned # <<>> =>
    LET response == call[1].response
    IN /\ (response.kind = "array" \/ (response.kind = "object" /\ response.hasItems)) =>
            /\ ~returned[1].thrown
            /\ Len(returned[1].items) = Len(response.items)
       /\ response.kind = "malformed" =>
            /\ ~returned[1].thrown
            /\ returned[1].items = <<>>

\* a list of items as the row mapping makes them
IsItemList(its) ==
  \A k \in DOMAIN its :
    /\ its[k].id = ItemId(1, k)
    /\ {its[k].inStock.t, its[k].par.t, its[k].order.t, its[k].price.t} = {"number"}

\* C21: extractInvoiceData ends in one of two ways, with a list of items or
\* with the one error "Failed to extract data from the invoice. Please try
\* again."; it ends with that error when the call is rejected, when the text
\* is no JSON and when the mapping of the rows throws
C21_OneError ==
  returned # <<>> =>
    /\ \/ returned[1] = [thrown |-> TRUE, items |-> <<>>, error |-> ExtractionError]
       \/ /\ ~returned[1].thrown
          /\ returned[1].error = ""
          /\ IsItemList(returned[1].items)
    /\ call[1].response.kind \in {"rejected", "malformed", "null", "nullRow"} =>
         returned[1].thrown

\* the mapping of a row has thrown and the caller got the one error
C21_Witness ==
  /\ returned # <<>>
  /\ call[1].response.kind = "nullRow"
  /\ returned[1].thrown
  /\ returned[1].error = ExtractionError

(***************************************************************************)
(* Claims about the start of the page (checked under SpecStartup)           *)
(***************************************************************************)
\* a stored text that does not hold what the page stores under its key: a
\* text that is no JSON, or JSON that is neither a list (history) nor an
\* object (settings)
Unusable(saved) == saved.kind \in {"malformed", "null"}

\* C22: the render that ends a start never throws and shows the dashboard;
\* when the stored history was unusable the history is empty, in the state
\* and in localStorage, and when the stored settings were unusable the
\* settings are the defaults (default sheet URL, empty scriptUrl, autoExport
\* true), in the state and in localStorage
C22_UnusableStorageGivesDefaults ==
  [][(boot.phase = "mounted" /\ boot'.phase # "mounted") =>
       /\ boot'.phase = "running"
       /\ view' = "DASHBOARD"
       /\ Unusable(boot.savedHistory) =>
            (history' = <<>> /\ storage'.history = StringifyHistory(<<>>))
       /\ Unusable(boot.savedSettings) =>
            (settings' = DefaultSettings
             /\ storage'.settings = StringifySettings(DefaultSettings))]_vars

\* the settings that the form can produce
AllSettings == [googleSheetUrl : SheetUrls, scriptUrl : ScriptUrls, autoExport : BOOLEAN]

\* C23: while the page runs, localStorage holds the settings of the state;
\* and when a start finds settings that a page has stored, the settings it
\* renders are those stored settings, in googleSheetUrl, scriptUrl and
\* autoExport
C23_SettingsRoundTrip ==
  [][/\ (Running' => storage'.settings = StringifySettings(settings'))
     /\ (/\ boot.phase = "mounted"
         /\ boot'.phase = "running"
         /\ \E st \in AllSettings : boot.savedSettings = StringifySettings(st))
          => StringifySettings(settings') = boot.savedSettings]_vars

\* the records of a stored history text (none when the text holds no list)
StoredRecords(saved) ==
  IF saved.kind = "json" THEN {saved.value[h] : h \in DOMAIN saved.value} ELSE {}

\* C30: from the moment a start has read a history list out of localStorage,
\* the history text in localStorage holds every record of that list, at
\* every step until the page is closed
C30_StartupKeepsHistory ==
  boot.phase \in {"mounted", "running"} =>
    StoredRecords(boot.savedHistory) \subseteq StoredRecords(storage.history)

(***************************************************************************)
(* Claims about what an export sends                                        *)
(***************************************************************************)
\* the place of a description in the order that ignores letter case
DescriptionPlace(d) ==
  CASE d = "" -> 0
    [] d \in {"apple", "Apple"} -> 1
    [] d = "banana" -> 2
    [] d = "Connection Test" -> 3
    [] d \in {"rice", "Rice"} -> 4
    [] d = "Unknown Item" -> 5

\* a field as it reads in a text: a number by its digits, a typed text as it is
Shown(x) == IF x.t = "number" THEN Str(x.v) ELSE x

\* vendor, description, inStock, par, order, price with one tab between each two
ClaimedLine(i) ==
  <<Chars(i.vendor), Tab, Chars(i.description), Tab, Shown(i.inStock), Tab,
    Shown(i.par), Tab, Shown(i.order), Tab, Shown(i.price)>>

\* the k-th stretch of eleven pieces of a text whose lines are twelve pieces apart
LineOf(text, k) == SubSeq(text, 12 * (k - 1) + 1, 12 * (k - 1) + 11)

\* the text holds one line for each item of the collection and nothing else:
\* a line feed between each two lines and none behind the last, the lines in
\* the order of their descriptions when letter case is ignored
IsClaimedTsv(text, collection) ==
  LET n == Len(collection)
  IN /\ Len(text) = IF n = 0 THEN 0 ELSE 12 * n - 1
     /\ \A k \in 1..(n - 1) : text[12 * k] = LineFeed
     /\ IsPermutation([k \in 1..n |-> ClaimedLine(collection[k])],
                      [k \in 1..n |-> LineOf(text, k)])
     /\ \A j, k \in 1..n :
          j < k => DescriptionPlace(LineOf(text, j)[3].v) <= DescriptionPlace(LineOf(text, k)[3].v)

\* C24: every text handed to the clipboard (by an export without a script
\* URL, by an export whose delivery failed, by "Copy data again") is the text
\* of the collection it is made of: one line per item, vendor, description,
\* inStock, par, order, price with single tabs between, the lines in the
\* order of the descriptions ignoring letter case with line feeds between,
\* no header line and no line feed at the end
C24_ClipboardText ==
  [][/\ (HandleManualExport /\ settings.scriptUrl = "")
          => IsClaimedTsv(clipboard'[Len(clipboard')], items)
     /\ CopyAgain => IsClaimedTsv(clipboard'[Len(clipboard')], items)
     /\ \A e \in DOMAIN exports :
          (\E reply \in AppReplies : ManualExportSettles(e, reply) /\ ~UploadResult(reply))
            => IsClaimedTsv(clipboard'[Len(clipboard')], exports[e].items)]_vars

\* a text of two lines went to the clipboard: "Apple" first, "banana" second,
\* each with its vendor in front and its numbers behind
C24_Witness ==
  /\ clipboard # <<>>
  /\ clipboard[Len(clipboard)] =
       <<Chars("General Produce"), Tab, Chars("Apple"), Tab, Str(2), Tab, Str(3), Tab,
         Str(1), Tab, Str(0), LineFeed,
         Chars("General Produce"), Tab, Chars("banana"), Tab, Str(1), Tab, Str(3), Tab,
         Str(2), Tab, Str(2)>>

\* the six fields of an item that an upload names
ClaimedFields == {"inStock", "par", "order", "description", "vendor", "price"}

ClaimedRow(i) ==
  [inStock |-> i.inStock, par |-> i.par, order |-> i.order,
   description |-> i.description, vendor |-> i.vendor, price |-> i.price]

\* C25 (checked under SpecUpload): the body of the request is an object with
\* the one member items, a list with one row for each item of the uploaded
\* collection, in the order of the descriptions ignoring letter case; a row
\* has the members inStock, par, order, description, vendor and price with
\* the values of its item and no other member, so neither an id nor a date
C25_PostBody ==
  \A p \in DOMAIN posts :
    LET body == posts[p].body
        dataToUpload == call[1].dataToUpload
    IN /\ DOMAIN body = {"items"}
       /\ \A k \in DOMAIN body.items : DOMAIN body.items[k] = ClaimedFields
       /\ IsPermutation([k \in DOMAIN dataToUpload |-> ClaimedRow(dataToUpload[k])],
                        body.items)
       /\ \A j, k \in DOMAIN body.items :
            j < k => DescriptionPlace(body.items[j].description)
                       <= DescriptionPlace(body.items[k].description)

\* "banana" and "Apple" were uploaded, and "Apple" is the first row of the body
C25_Witness ==
  /\ posts # <<>>
  /\ Len(call[1].dataToUpload) = 2
  /\ call[1].dataToUpload[1].description = "banana"
  /\ call[1].dataToUpload[2].description = "Apple"
  /\ posts[1].body.items[1] =
       [inStock |-> Num(2), par |-> Num(3), order |-> Num(1), description |-> "Apple",
        vendor |-> "General Produce", price |-> Num(0)]

\* C26: when a request to the script is issued, every item whose row it
\* carries is in the collection under review: the rows of an auto-export are
\* items of the collection at the moment the request goes out, and so are
\* the rows of an export from the review screen
C26_ReviewBeforeExport ==
  [][/\ \A i \in DOMAIN scans :
          AutoExportDelayElapsed(i) =>
            \A k \in DOMAIN scans[i].extracted :
              \E m \in DOMAIN items : items[m] = scans[i].extracted[k]
     /\ (HandleManualExport /\ settings.scriptUrl # "") =>
          posts'[Len(posts')].body.items = [k \in DOMAIN items |-> ClaimedRow(SortedCopy(items)[k])]]_vars

(***************************************************************************)
(* Claims about a scan and the collection                                   *)
(***************************************************************************)
\* C27: a scan whose extraction fails changes neither the collection nor
\* the history, from the choice of its file to the failure; the failure
\* shows the review screen when the scan was started to append, and the
\* dashboard otherwise
C27_FailedExtractionKeepsState ==
  [][/\ HandleFileUpload => (items' = items /\ history' = history)
     /\ \A i \in DOMAIN scans :
          /\ FileRead(i) => (items' = items /\ history' = history)
          /\ ExtractionFails(i) =>
               /\ items' = items
               /\ history' = history
               /\ view' = IF scans[i].triggered = "append" THEN "REVIEW" ELSE "DASHBOARD"]_vars

\* the second scan, started to append, failed: the review screen shows the
\* row of the first scan
C27_Witness ==
  /\ alerts = <<"Failed to extract data.">>
  /\ nScans = 2
  /\ scans = <<>>
  /\ view = "REVIEW"
  /\ Len(items) = 1
  /\ items[1].id = ItemId(1, 1)
  /\ scanMode = "append"
  /\ history = <<>>

\* the rows an upload of the collection carries
ClaimedRows(collection) ==
  [k \in DOMAIN collection |-> ClaimedRow(SortedCopy(collection)[k])]

\* C28: the press of the export button makes the new history record of the
\* collection as it is at the press, and the request (with a script URL) or
\* the clipboard text (without one) of the same collection; and when the
\* request of an export fails, the clipboard text is the text of the
\* collection as it was at the press, which the record of that export still
\* holds, whatever has been done to the rows since
C28_ExportOfOneCollection ==
  [][/\ HandleManualExport =>
          /\ history'[1].items = items
          /\ exports'[Len(exports')].items = items
          /\ IF settings.scriptUrl # ""
               THEN posts'[Len(posts')].body.items = ClaimedRows(items)
               ELSE IsClaimedTsv(clipboard'[Len(clipboard')], items)
     /\ \A e \in DOMAIN exports :
          (\E reply \in AppReplies : ManualExportSettles(e, reply) /\ ~UploadResult(reply)) =>
            /\ IsClaimedTsv(clipboard'[Len(clipboard')], exports[e].items)
            /\ \E h \in DOMAIN history' : history'[h].items = exports[e].items
            /\ \E p \in DOMAIN posts : posts[p].body.items = ClaimedRows(exports[e].items)]_vars

\* a row was added while the request was in flight; the request failed, and
\* the clipboard text has the one line of the record, not the two of the
\* collection
C28_Witness ==
  /\ exports # <<>>
  /\ exports[1].pc = "copying"
  /\ history # <<>>
  /\ posts # <<>>
  /\ clipboard # <<>>
  /\ Len(items) = 2
  /\ Len(history[1].items) = 1
  /\ Len(posts[Len(posts)].body.items) = 1
  /\ Len(clipboard[Len(clipboard)]) = 11

\* C29: the request of an auto-export carries the rows of the items that the
\* scan's extraction produced and no others, in new and in append mode, so
\* none of the rows the collection held before; the request of an export
\* from the review screen carries the rows of the whole collection, those
\* that an auto-export has sent before included
C29_AutoExportSendsTheScan ==
  [][/\ \A i \in DOMAIN scans :
          /\ \A doc \in Docs :
               (ExtractionSucceeds(i, doc) /\ Len(scans') = Len(scans)) =>
                 scans'[i].extracted = MapRows(doc, scans[i].no)
          /\ AutoExportDelayElapsed(i) =>
               posts'[Len(posts')].body.items = ClaimedRows(scans[i].extracted)
     /\ (HandleManualExport /\ settings.scriptUrl # "") =>
          /\ posts'[Len(posts')].body.items = ClaimedRows(items)
          /\ Len(posts'[Len(posts')].body.items) = Len(items)]_vars

\* the second scan, started to append, has sent its one row on its own: the
\* collection holds three rows, the two of the first scan in front
C29_Witness ==
  /\ Len(posts) = 2
  /\ Len(posts[1].body.items) = 2
  /\ posts[2].body.items = ClaimedRows(MapRows(DocRice, 2))
  /\ scanMode = "append"
  /\ scans = <<>>
  /\ Len(items) = 3
  /\ items[3].id = ItemId(2, 1)


====
